---- MODULE Spec2Model ----
(***************************************************************************)
(* A model of jglsl_shader_c (jglsl_shader.hpp): the scanner (skip_ws,     *)
(* next_tok), the builtin type registry (register_builtin_type,            *)
(* is_builtin_type), the struct table builder (parse_structures), the      *)
(* declaration extractor (parse_vars), and the public calls that run it    *)
(* and keep what it extracts: load, finalize, unload, add_attribute,       *)
(* add_uniform.                                                            *)
(*                                                                         *)
(* The calls into OpenGL are the environment: a compile status, a program  *)
(* handle.  The log buffer and the locations stored with the names are not *)
(* part of the model.                                                      *)
(*                                                                         *)
(* Text is a sequence of one-character strings.  Buffer offsets are the    *)
(* 0-based offsets of the C++ code; At(code, i) is code[i].  The buffer    *)
(* handed to the parser is NUL-terminated: the NUL sits at offset          *)
(* Len(code), and the declared length len may be shorter than that.        *)
(***************************************************************************)
EXTENDS Naturals, Integers, Sequences, FiniteSets, TLC

VARIABLES
    \* the members of the object, lines 79-87: the keys of the two maps, the
    \* registries, the pending names, the number of compiled shaders, the
    \* program handle
    m_attributes, m_uniforms, m_builtin_types, m_complex_builtin_types,
    m_pending_uniforms, m_pending_attributes, m_shaders, m_program,
    \* the shader text this object's load calls are given (code, len), and
    \* the description it is rendered from
    src, len, inp,
    \* the public calls made so far
    calls,
    \* parse_vars (and the parse_structures call it makes): the keyword it
    \* is called with, its position and its locals
    kw, pc, pcode, offs, o, tok, field_name, field_fields, structs, struct_fld,
    \* the vector res refers to as it was when parse_vars was entered, and
    \* the highest buffer offset read since
    res0, maxRead,
    \* a single skip_ws call, stepped statement by statement
    sw_buf, sw_offs, sw_pc, sw_ptr, sw_done

textVars == <<src, len, inp>>
registryVars == <<m_builtin_types, m_complex_builtin_types>>
pending == <<m_pending_uniforms, m_pending_attributes>>
objectVars == <<m_attributes, m_uniforms, m_builtin_types,
                m_complex_builtin_types, m_shaders, m_program, calls>>
localVars == <<kw, pc, pcode, offs, o, tok, field_name, field_fields,
               structs, struct_fld, res0, maxRead>>
parserVars == <<textVars, objectVars, pending, localVars>>
skipVars == <<sw_buf, sw_offs, sw_pc, sw_ptr, sw_done>>
vars == <<m_attributes, m_uniforms, m_builtin_types, m_complex_builtin_types,
          m_pending_uniforms, m_pending_attributes, m_shaders, m_program,
          src, len, inp, calls,
          kw, pc, pcode, offs, o, tok, field_name, field_fields, structs,
          struct_fld, res0, maxRead,
          sw_buf, sw_offs, sw_pc, sw_ptr, sw_done>>

(***************************************************************************)
(* Bounds of the model.                                                    *)
(***************************************************************************)
\* longest buffer given to the stepped skip_ws
MaxBuf == 4
\* most variables in one declaration's comma list
MaxVars == 2
\* most fields in one struct body
MaxFields == 2
\* most struct definitions in one source
MaxStructs == 3
\* most qualifier declarations in one source
MaxDecls == 2
\* longest vector of names the model follows: a step that would make a
\* vector longer is not taken
MaxRes == 64
\* most public calls made on one object
MaxCalls == 2

(***************************************************************************)
(* Characters and strings.                                                 *)
(***************************************************************************)
At(code, i) == code[i + 1]

\* isspace() in the "C" locale: space, \t, \n, \v (written as the character
\* itself), \f, \r
isspace(c) == c \in {" ", "\t", "\n", "", "\f", "\r"}

\* std::string::find(sub) != npos
Contains(s, sub) ==
    \E i \in 0..(Len(s) - Len(sub)) : SubSeq(s, i + 1, i + Len(sub)) = sub

\* the value skip_ws is given when the call never returns
Hang == 0 - 1
\* the null pointer strstr returns
Null == 0 - 1

(***************************************************************************)
(* Words of the shader language used by the parser and by the inputs.      *)
(***************************************************************************)
W_struct == <<"s", "t", "r", "u", "c", "t">>
W_uniform == <<"u", "n", "i", "f", "o", "r", "m">>
W_int == <<"i", "n", "t">>
W_uint == <<"u", "i", "n", "t">>
W_bool == <<"b", "o", "o", "l">>
W_float == <<"f", "l", "o", "a", "t">>
W_double == <<"d", "o", "u", "b", "l", "e">>
W_atomic_uint == <<"a", "t", "o", "m", "i", "c", "_", "u", "i", "n", "t">>
W_vec == <<"v", "e", "c">>
W_mat == <<"m", "a", "t">>
W_image == <<"i", "m", "a", "g", "e">>
W_sampler == <<"s", "a", "m", "p", "l", "e", "r">>

W_attribute == <<"a", "t", "t", "r", "i", "b", "u", "t", "e">>

\* import_std_builtin_types, lines 345-350: the exact-match names
std_builtin_types ==
    <<W_int, W_uint, W_bool, W_float, W_double, W_atomic_uint>>
\* lines 351-354: the names matched as a fragment anywhere in a type's
\* spelling
std_complex_builtin_types == <<W_vec, W_mat, W_image, W_sampler>>

\* the null pointer get_struct_field returns (ok = FALSE)
NoFields == [ok |-> FALSE, fields |-> <<>>]


(***************************************************************************)
(* skip_ws, lines 91-121.                                                  *)
(***************************************************************************)
RECURSIVE SkipSpaces(_, _, _)
\* lines 99-100
SkipSpaces(code, ptr, l) ==
    IF ptr < l /\ isspace(At(code, ptr))
    THEN SkipSpaces(code, ptr + 1, l)
    ELSE ptr

RECURSIVE SkipLineComment(_, _, _)
\* lines 106-107: the condition (c != '\n' || c != '\r') as written
SkipLineComment(code, ptr, l) ==
    IF ptr < l /\ (At(code, ptr) # "\n" \/ At(code, ptr) # "\r")
    THEN SkipLineComment(code, ptr + 1, l)
    ELSE ptr

RECURSIVE SkipBlockComment(_, _, _)
\* lines 110-111: the condition (c != '*' && c1 != '/') as written
SkipBlockComment(code, ptr, l) ==
    IF ptr + 1 < l /\ (At(code, ptr) # "*" /\ At(code, ptr + 1) # "/")
    THEN SkipBlockComment(code, ptr + 1, l)
    ELSE ptr

\* lines 103-117: the comment step of one iteration of the outer loop;
\* done is the flag as the iteration leaves it
skip_comment(code, ptr, l) ==
    IF ptr + 1 < l /\ At(code, ptr) = "/"
    THEN IF At(code, ptr + 1) = "/"
         THEN [ptr |-> SkipLineComment(code, ptr + 1, l), done |-> FALSE]
         ELSE IF At(code, ptr + 1) = "*"
         THEN LET q == SkipBlockComment(code, ptr + 2, l)
              IN  [ptr |-> IF q + 1 < l /\ At(code, q) = "*" /\ At(code, q + 1) = "/"
                           THEN q + 2 ELSE q,
                   done |-> FALSE]
         ELSE [ptr |-> ptr, done |-> FALSE]
    ELSE [ptr |-> ptr, done |-> TRUE]

RECURSIVE skip_ws(_, _, _)
\* lines 91-121 as a function.  One iteration of the outer loop depends on
\* ptr alone, so an iteration that ends with done = false and ptr where it
\* started repeats for ever: the call does not return (Hang).
skip_ws(code, ptr, l) ==
    IF ~(ptr < l) THEN ptr
    ELSE LET r == skip_comment(code, SkipSpaces(code, ptr, l), l)
         IN  IF r.done THEN r.ptr
             ELSE IF r.ptr = ptr THEN Hang
             ELSE skip_ws(code, r.ptr, l)

(***************************************************************************)
(* next_tok, lines 123-132.                                                *)
(***************************************************************************)
IsDelim(c) == isspace(c) \/ c \in {";", "{", "}", ",", "/", "["}

RECURSIVE TokEnd(_, _, _)
TokEnd(code, ptr, l) ==
    IF ptr < l /\ ~IsDelim(At(code, ptr))
    THEN TokEnd(code, ptr + 1, l)
    ELSE ptr

next_tok(code, ptr, l) ==
    LET e == TokEnd(code, ptr, l)
    IN  [tok |-> SubSeq(code, ptr + 1, e), ptr |-> e]

(***************************************************************************)
(* One call of skip_ws, stepped: the loop test, the whitespace loop and    *)
(* the comment step are separate steps, so that a call that never returns  *)
(* is a behaviour that never reaches "ret".                                *)
(***************************************************************************)
SkipAlphabet == {" ", "\n", "", "/", "*", "x"}

RECURSIVE Strings(_, _)
\* all strings over alphabet A of length at most n
Strings(A, n) ==
    IF n = 0 THEN {<<>>}
    ELSE LET S == Strings(A, n - 1)
         IN  S \cup {Append(s, c) : s \in {t \in S : Len(t) = n - 1}, c \in A}

\* parse_vars is not running: its locals have no value
NoCall ==
    /\ kw = <<>> /\ pc = "idle" /\ pcode = 0 /\ offs = 0 /\ o = 0 /\ tok = <<>>
    /\ field_name = <<>> /\ field_fields = <<>> /\ structs = <<>>
    /\ struct_fld = NoFields
    /\ res0 = <<>> /\ maxRead = 0 - 1

\* lines 322-324: the object as the constructor leaves it
Constructed ==
    /\ m_attributes = {} /\ m_uniforms = {}
    /\ m_builtin_types = std_builtin_types
    /\ m_complex_builtin_types = std_complex_builtin_types
    /\ m_pending_uniforms = <<>> /\ m_pending_attributes = <<>>
    /\ m_shaders = 0 /\ m_program = 0
    /\ calls = 0

\* skip_ws is static: the call is made on its own, no text is loaded
ParserIdle ==
    /\ src = <<>> /\ len = 0 /\ inp = <<>>
    /\ Constructed
    /\ NoCall

SkipIdle ==
    /\ sw_buf = <<>> /\ sw_offs = 0 /\ sw_pc = "idle" /\ sw_ptr = 0
    /\ sw_done = FALSE

\* lines 91-93: the call, with len = the length of the buffer
SkipInit ==
    /\ sw_buf \in Strings(SkipAlphabet, MaxBuf)
    /\ sw_offs \in 0..Len(sw_buf)
    /\ sw_ptr = sw_offs
    /\ sw_done = FALSE
    /\ sw_pc = "test"
    /\ ParserIdle

\* lines 95-96 and 120: the loop test; done = true on entry to the body
SW_Test ==
    /\ sw_pc = "test"
    /\ IF ~sw_done /\ sw_ptr < Len(sw_buf)
       THEN sw_done' = TRUE /\ sw_pc' = "space"
       ELSE sw_done' = sw_done /\ sw_pc' = "ret"
    /\ UNCHANGED <<sw_buf, sw_offs, sw_ptr>>
    /\ UNCHANGED parserVars

\* lines 99-100
SW_Space ==
    /\ sw_pc = "space"
    /\ sw_ptr' = SkipSpaces(sw_buf, sw_ptr, Len(sw_buf))
    /\ sw_pc' = "comment"
    /\ UNCHANGED <<sw_buf, sw_offs, sw_done>>
    /\ UNCHANGED parserVars

\* lines 103-117
SW_Comment ==
    /\ sw_pc = "comment"
    /\ LET r == skip_comment(sw_buf, sw_ptr, Len(sw_buf))
       IN  /\ sw_ptr' = r.ptr
           /\ sw_done' = r.done
    /\ sw_pc' = "test"
    /\ UNCHANGED <<sw_buf, sw_offs>>
    /\ UNCHANGED parserVars

SkipNext == SW_Test \/ SW_Space \/ SW_Comment

SkipSpec == SkipInit /\ [][SkipNext]_vars

\* the loop of skip_ws runs on: no step is postponed for ever
FairSkipSpec == SkipSpec /\ WF_vars(SkipNext)

\* the stepped call and the function skip_ws agree: the call returns the
\* function's value, and does not return where the function is Hang
SkipWsAgrees ==
    LET v == skip_ws(sw_buf, sw_offs, Len(sw_buf))
    IN  sw_pc = "ret" => (v # Hang /\ sw_ptr = v)

SkipWsHangs ==
    skip_ws(sw_buf, sw_offs, Len(sw_buf)) = Hang => <>[](sw_pc # "ret")

(***************************************************************************)
(* What skip_ws is meant to return: the offset of the first character at   *)
(* or after the start that is neither whitespace nor inside a comment, or  *)
(* len when there is none.                                                 *)
(***************************************************************************)
RECURSIVE RefLineEnd(_, _, _)
\* the offset of the line terminator ending a // comment, or len
RefLineEnd(code, p, l) ==
    IF p < l /\ At(code, p) # "\n" /\ At(code, p) # "\r"
    THEN RefLineEnd(code, p + 1, l)
    ELSE p

RECURSIVE RefBlockEnd(_, _, _)
\* the offset after the first closing */ of a block comment, or len
RefBlockEnd(code, p, l) ==
    IF p + 1 < l
    THEN IF At(code, p) = "*" /\ At(code, p + 1) = "/"
         THEN p + 2
         ELSE RefBlockEnd(code, p + 1, l)
    ELSE l

RECURSIVE RefSkip(_, _, _)
RefSkip(code, p, l) ==
    IF ~(p < l) THEN l
    ELSE IF isspace(At(code, p)) THEN RefSkip(code, p + 1, l)
    ELSE IF p + 1 < l /\ At(code, p) = "/" /\ At(code, p + 1) = "/"
    THEN RefSkip(code, RefLineEnd(code, p + 2, l), l)
    ELSE IF p + 1 < l /\ At(code, p) = "/" /\ At(code, p + 1) = "*"
    THEN RefSkip(code, RefBlockEnd(code, p + 2, l), l)
    ELSE p

\* C3: whenever skip_ws returns, it returns len or the offset of the first
\* character at or after the start offset that is neither whitespace nor
\* part of a comment; a // comment ends with its line and a /* comment with
\* its first closing */, and mixed runs are consumed completely.
C3_SkipWsReturnsFirstCodeChar ==
    sw_pc = "ret" => sw_ptr = RefSkip(sw_buf, sw_offs, Len(sw_buf))

\* C4: skip_ws terminates for every buffer and every start offset, also
\* when the cursor reaches a / followed by neither / nor *.
C4_SkipWsTerminates == <>(sw_pc = "ret")

\* lines 134-148
is_builtin_type(s, base_types, complex_types) ==
    \/ \E i \in 1..Len(base_types) : s = base_types[i]
    \/ \E i \in 1..Len(complex_types) : Contains(s, complex_types[i])

(***************************************************************************)
(* The struct table: std::map<string, vector<string>>, kept as the         *)
(* sequence of its (name, fields) entries.  A name has at most one entry.  *)
(***************************************************************************)
\* lines 150-153: the entry's field list, or the null pointer (ok = FALSE)
get_struct_field(name, table) ==
    IF \E i \in 1..Len(table) : table[i].name = name
    THEN LET i == CHOOSE i \in 1..Len(table) : table[i].name = name
         IN  [ok |-> TRUE, fields |-> table[i].fields]
    ELSE NoFields

\* std::map::insert, line 239: an existing key keeps its value
map_insert(table, name, fields) ==
    IF \E i \in 1..Len(table) : table[i].name = name
    THEN table
    ELSE Append(table, [name |-> name, fields |-> fields])

\* std::vector::push_back
push_back(v, x) == Append(v, x)

RECURSIVE push_paths(_, _, _, _)
\* lines 213-216 and 291-294: push tok + "." + fields[f] for f = i..size-1
push_paths(v, t, fields, i) ==
    IF i > Len(fields) THEN v
    ELSE push_paths(push_back(v, t \o <<".">> \o fields[i]), t, fields, i + 1)

(***************************************************************************)
(* strstr on the NUL-terminated text: the offset of the first occurrence   *)
(* of needle at or after start, or Null.                                   *)
(***************************************************************************)
RECURSIVE strstr(_, _, _)
strstr(code, start, needle) ==
    IF start + Len(needle) > Len(code) THEN Null
    ELSE IF SubSeq(code, start + 1, start + Len(needle)) = needle THEN start
    ELSE strstr(code, start + 1, needle)

\* the highest offset the search reads: the last character of the match,
\* or, when there is no match, the NUL at offset Len(code)
strstr_read(code, start, needle) ==
    LET p == strstr(code, start, needle)
    IN  IF p = Null THEN Len(code) ELSE p + Len(needle) - 1

Max(a, b) == IF a > b THEN a ELSE b

RECURSIVE skip_bracket(_, _, _)
\* lines 231-232 and 308-309
skip_bracket(code, ptr, l) ==
    IF ptr < l /\ At(code, ptr) # "]"
    THEN skip_bracket(code, ptr + 1, l)
    ELSE ptr

\* lines 230-234 and 307-311, entered at the '['
array_group(code, ptr, l) ==
    LET q == skip_bracket(code, ptr + 1, l)
    IN  IF q < l THEN q + (IF At(code, q) = "]" THEN 1 ELSE 0) ELSE q

(***************************************************************************)
(* parse_structures, lines 156-245, in the pieces its steps are made of.   *)
(* Each piece returns st: what the code does next ("hang" when a skip_ws   *)
(* call does not return).                                                  *)
(***************************************************************************)
\* lines 171-188: from the match at p to the first field of the body
ps_header(code, p, l) ==
    LET o1 == skip_ws(code, p + 6, l)
    IN  IF o1 = Hang THEN [st |-> "hang", offs |-> p, name |-> <<>>]
        ELSE IF o1 >= l THEN [st |-> "return", offs |-> o1, name |-> <<>>]
        ELSE
        LET t == next_tok(code, o1, l)
        IN  IF t.ptr >= l THEN [st |-> "return", offs |-> t.ptr, name |-> t.tok]
            ELSE
            LET o3 == skip_ws(code, t.ptr, l)
            IN  IF o3 = Hang THEN [st |-> "hang", offs |-> t.ptr, name |-> t.tok]
                ELSE IF o3 >= l THEN [st |-> "return", offs |-> o3, name |-> t.tok]
                ELSE IF At(code, o3) # "{"
                THEN [st |-> "return", offs |-> o3, name |-> t.tok]
                ELSE
                LET o4 == skip_ws(code, o3 + 1, l)
                IN  IF o4 = Hang
                    THEN [st |-> "hang", offs |-> o3 + 1, name |-> t.tok]
                    ELSE IF o4 >= l
                    THEN [st |-> "return", offs |-> o4, name |-> t.tok]
                    ELSE [st |-> "body", offs |-> o4, name |-> t.tok]

\* lines 191-198: the head of one iteration of the body loop
ps_body_top(code, ptr, l) ==
    IF ~(ptr < l) THEN [st |-> "break", offs |-> ptr, tok |-> <<>>]
    ELSE
    LET o1 == skip_ws(code, ptr, l)
    IN  IF o1 = Hang THEN [st |-> "hang", offs |-> ptr, tok |-> <<>>]
        ELSE IF o1 >= l THEN [st |-> "break", offs |-> o1, tok |-> <<>>]
        ELSE IF At(code, o1) = "}" THEN [st |-> "break", offs |-> o1, tok |-> <<>>]
        ELSE LET t == next_tok(code, o1, l)
             IN  [st |-> "field", offs |-> t.ptr, tok |-> t.tok]

\* lines 221-235: what follows a field
ps_trailer(code, ptr, l, fields) ==
    LET o1 == skip_ws(code, ptr, l)
    IN  IF o1 = Hang THEN [st |-> "hang", offs |-> ptr, fields |-> fields]
        ELSE IF o1 >= l THEN [st |-> "break", offs |-> o1, fields |-> fields]
        ELSE IF At(code, o1) = "," THEN [st |-> "loop", offs |-> o1 + 1, fields |-> fields]
        ELSE IF At(code, o1) = ";" THEN [st |-> "loop", offs |-> o1 + 1, fields |-> fields]
        ELSE IF At(code, o1) = "["
        THEN [st |-> "loop", offs |-> array_group(code, o1, l), fields |-> fields]
        ELSE [st |-> "loop", offs |-> o1, fields |-> fields]

\* lines 199-235: the rest of the iteration, after the type token t
ps_field(code, ptr, t, table, fields, l) ==
    IF is_builtin_type(t, m_builtin_types, m_complex_builtin_types)
    THEN LET o1 == skip_ws(code, ptr, l)
         IN  IF o1 = Hang THEN [st |-> "hang", offs |-> ptr, fields |-> fields]
             ELSE IF o1 >= l THEN [st |-> "break", offs |-> o1, fields |-> fields]
             ELSE LET n == next_tok(code, o1, l)
                  IN  ps_trailer(code, n.ptr, l, push_back(fields, n.tok))
    ELSE IF get_struct_field(t, table).ok
    THEN LET o1 == skip_ws(code, ptr, l)
         IN  IF o1 = Hang THEN [st |-> "hang", offs |-> ptr, fields |-> fields]
             ELSE IF o1 >= l THEN [st |-> "break", offs |-> o1, fields |-> fields]
             ELSE LET n == next_tok(code, o1, l)
                  IN  ps_trailer(code, n.ptr, l,
                          push_paths(fields, n.tok, get_struct_field(t, table).fields, 1))
    ELSE ps_trailer(code, ptr, l, push_back(fields, t))

(***************************************************************************)
(* parse_vars, lines 247-318, in the pieces its steps are made of.         *)
(***************************************************************************)
\* a faulty variant of resume_after_keyword: the search position is left at the
\* start of the keyword occurrence
resume_at_keyword(p, field_size) == p

\* lines 262-263: offs = pcode - code; pcode += field_size
resume_after_keyword(p, field_size) == p + field_size

\* lines 271-280: the declared type, from the position after the keyword
pv_type(code, ptr, l, table) ==
    LET o1 == skip_ws(code, ptr, l)
    IN  IF o1 = Hang THEN [st |-> "hang", o |-> ptr, fld |-> NoFields]
        ELSE IF o1 >= l THEN [st |-> "break", o |-> o1, fld |-> NoFields]
        ELSE
        LET t == next_tok(code, o1, l)
        IN  IF ~is_builtin_type(t.tok, m_builtin_types, m_complex_builtin_types)
            THEN IF ~get_struct_field(t.tok, table).ok
                 THEN [st |-> "continue", o |-> t.ptr, fld |-> NoFields]
                 ELSE [st |-> "loop", o |-> t.ptr, fld |-> get_struct_field(t.tok, table)]
            ELSE [st |-> "loop", o |-> t.ptr, fld |-> NoFields]

\* lines 282-288: the head of one iteration of the variable-name loop
pv_var_top(code, ptr, l) ==
    IF ~(ptr < l) THEN [st |-> "break", o |-> ptr, tok |-> <<>>]
    ELSE
    LET o1 == skip_ws(code, ptr, l)
    IN  IF o1 = Hang THEN [st |-> "hang", o |-> ptr, tok |-> <<>>]
        ELSE IF o1 >= l THEN [st |-> "break", o |-> o1, tok |-> <<>>]
        ELSE IF At(code, o1) = ";" THEN [st |-> "break", o |-> o1, tok |-> <<>>]
        ELSE LET t == next_tok(code, o1, l)
             IN  [st |-> "var", o |-> t.ptr, tok |-> t.tok]

\* lines 290-299: the entries pushed for the variable name t
pv_emit(v, t, fld) ==
    IF fld.ok THEN push_paths(v, t, fld.fields, 1) ELSE push_back(v, t)

\* lines 300-312: what follows a variable name
pv_trailer(code, ptr, l) ==
    LET o1 == skip_ws(code, ptr, l)
    IN  IF o1 = Hang THEN [st |-> "hang", o |-> ptr]
        ELSE IF o1 >= l THEN [st |-> "break", o |-> o1]
        ELSE IF At(code, o1) = "," THEN [st |-> "loop", o |-> o1 + 1]
        ELSE IF At(code, o1) = "["
        THEN [st |-> "loop", o |-> array_group(code, o1, l)]
        ELSE [st |-> "loop", o |-> o1]

(***************************************************************************)
(* The steps of parse_vars(res, kw, src, len, ...): first the call of      *)
(* parse_structures (pc = "ps_..."), then its own loops (pc = "pv_...").   *)
(* kw is the parameter field_name of parse_vars; field_name is the local   *)
(* of parse_structures.  pc = "hang": inside a skip_ws call that does not  *)
(* return.  pc = "done": parse_vars has returned.                          *)
(***************************************************************************)
\* lines 405-406: res is the vector load passes with the keyword
res == IF kw = W_attribute THEN m_pending_attributes ELSE m_pending_uniforms

\* that vector becomes v
SetRes(v) ==
    IF kw = W_attribute
    THEN m_pending_attributes' = v /\ UNCHANGED m_pending_uniforms
    ELSE m_pending_uniforms' = v /\ UNCHANGED m_pending_attributes

\* lines 250-255: parse_vars is entered with the keyword k
EnterParseVars(k) ==
    /\ kw' = k
    /\ pc' = "ps_for" /\ pcode' = 0 /\ offs' = 0 /\ o' = 0 /\ tok' = <<>>
    /\ field_name' = <<>> /\ field_fields' = <<>> /\ structs' = <<>>
    /\ struct_fld' = NoFields
    /\ res0' = (IF k = W_attribute THEN m_pending_attributes
                ELSE m_pending_uniforms)
    /\ maxRead' = 0 - 1

\* the last parse_vars call of load has returned: its locals are gone
LeaveParseVars ==
    /\ kw' = <<>>
    /\ pc' = "idle" /\ pcode' = 0 /\ offs' = 0 /\ o' = 0 /\ tok' = <<>>
    /\ field_name' = <<>> /\ field_fields' = <<>> /\ structs' = <<>>
    /\ struct_fld' = NoFields
    /\ res0' = <<>>
    /\ maxRead' = 0 - 1

\* parse_structures returns; lines 250 and 257 start the loop of parse_vars
ToParseVars ==
    /\ pc' = "pv_for"
    /\ pcode' = 0
    /\ offs' = 0
    /\ field_name' = <<>>
    /\ field_fields' = <<>>

\* lines 162-188: the loop test, the search for "struct", the header
PS_Find ==
    /\ pc = "ps_for"
    /\ IF ~(offs < len)
       THEN ToParseVars /\ UNCHANGED maxRead
       ELSE
       LET p == strstr(src, pcode, W_struct)
       IN  /\ maxRead' = Max(maxRead, strstr_read(src, pcode, W_struct))
           /\ IF p = Null
              THEN ToParseVars
              ELSE
              LET h == ps_header(src, p, len)
              IN  IF h.st = "return"
                  THEN ToParseVars
                  ELSE /\ pc' = (IF h.st = "hang" THEN "hang" ELSE "ps_body")
                       /\ pcode' = p
                       /\ offs' = h.offs
                       /\ field_name' = h.name
                       /\ field_fields' = <<>>
    /\ UNCHANGED <<kw, o, tok, structs, struct_fld, res0, pending>>
    /\ UNCHANGED <<textVars, objectVars, skipVars>>

\* lines 191-198
PS_BodyTop ==
    /\ pc = "ps_body"
    /\ LET r == ps_body_top(src, offs, len)
       IN  /\ pc' = (CASE r.st = "hang" -> "hang"
                       [] r.st = "break" -> "ps_commit"
                       [] r.st = "field" -> "ps_field")
           /\ offs' = r.offs
           /\ tok' = r.tok
    /\ UNCHANGED <<kw, pcode, o, field_name, field_fields,
                   structs, struct_fld, maxRead, res0, pending>>
    /\ UNCHANGED <<textVars, objectVars, skipVars>>

\* lines 199-235
PS_Field ==
    /\ pc = "ps_field"
    /\ LET r == ps_field(src, offs, tok, structs, field_fields, len)
       IN  /\ pc' = (CASE r.st = "hang" -> "hang"
                       [] r.st = "break" -> "ps_commit"
                       [] r.st = "loop" -> "ps_body")
           \* the model follows a vector up to MaxRes entries
           /\ Len(r.fields) <= MaxRes
           /\ offs' = r.offs
           /\ field_fields' = r.fields
    /\ UNCHANGED <<kw, pcode, o, tok, field_name, structs,
                   struct_fld, maxRead, res0, pending>>
    /\ UNCHANGED <<textVars, objectVars, skipVars>>

\* lines 238-243
PS_Commit ==
    /\ pc = "ps_commit"
    /\ structs' = (IF offs < len /\ At(src, offs) = "}"
                   THEN map_insert(structs, field_name, field_fields)
                   ELSE structs)
    /\ IF offs + 2 >= len
       THEN ToParseVars
       ELSE /\ pc' = "ps_for"
            /\ pcode' = offs + 2
            /\ UNCHANGED <<offs, field_name, field_fields>>
    /\ UNCHANGED <<kw, o, tok, struct_fld, maxRead, res0, pending>>
    /\ UNCHANGED <<textVars, objectVars, skipVars>>

\* lines 257-280
PV_Find ==
    /\ pc = "pv_for"
    /\ IF ~(offs < len)
       THEN /\ pc' = "done"
            /\ UNCHANGED <<pcode, offs, o, struct_fld, tok, maxRead>>
       ELSE
       LET p == strstr(src, pcode, kw)
       IN  /\ maxRead' = Max(maxRead, strstr_read(src, pcode, kw))
           /\ IF p = Null
              THEN /\ pc' = "done"
                   /\ UNCHANGED <<pcode, offs, o, struct_fld, tok>>
              ELSE
              LET next == resume_after_keyword(p, Len(kw))
                  r == pv_type(src, next, len, structs)
              IN  /\ pc' = (CASE r.st = "hang" -> "hang"
                              [] r.st = "break" -> "done"
                              [] r.st = "continue" -> "pv_for"
                              [] r.st = "loop" -> "pv_loop")
                  /\ offs' = p
                  /\ pcode' = next
                  /\ o' = r.o
                  /\ struct_fld' = r.fld
                  /\ tok' = <<>>
    /\ UNCHANGED <<kw, field_name, field_fields, structs, res0, pending>>
    /\ UNCHANGED <<textVars, objectVars, skipVars>>

\* lines 282-288
PV_VarTop ==
    /\ pc = "pv_loop"
    /\ LET r == pv_var_top(src, o, len)
       IN  /\ pc' = (CASE r.st = "hang" -> "hang"
                       [] r.st = "break" -> "pv_resume"
                       [] r.st = "var" -> "pv_var")
           /\ o' = r.o
           /\ tok' = r.tok
    /\ UNCHANGED <<kw, pcode, offs, field_name, field_fields,
                   structs, struct_fld, maxRead, res0, pending>>
    /\ UNCHANGED <<textVars, objectVars, skipVars>>

\* lines 290-312
PV_Var ==
    /\ pc = "pv_var"
    \* the model follows a vector up to MaxRes entries
    /\ Len(pv_emit(res, tok, struct_fld)) <= MaxRes
    /\ SetRes(pv_emit(res, tok, struct_fld))
    /\ LET r == pv_trailer(src, o, len)
       IN  /\ pc' = (CASE r.st = "hang" -> "hang"
                       [] r.st = "break" -> "pv_resume"
                       [] r.st = "loop" -> "pv_loop")
           /\ o' = r.o
    /\ UNCHANGED <<kw, pcode, offs, tok, field_name,
                   field_fields, structs, struct_fld, maxRead, res0>>
    /\ UNCHANGED <<textVars, objectVars, skipVars>>

\* line 314
PV_Resume ==
    /\ pc = "pv_resume"
    /\ pcode' = o
    /\ pc' = "pv_for"
    /\ UNCHANGED <<kw, offs, o, tok, field_name, field_fields,
                   structs, struct_fld, maxRead, res0, pending>>
    /\ UNCHANGED <<textVars, objectVars, skipVars>>

(***************************************************************************)
(* The public calls.  One is made when no other is running (pc = "idle").  *)
(***************************************************************************)
\* lines 397-405: load(type, src, len) compiles the text and calls
\* parse_vars(m_pending_uniforms, "uniform", ...)
Load ==
    /\ pc = "idle"
    /\ calls < MaxCalls
    /\ calls' = calls + 1
    /\ EnterParseVars(W_uniform)
    /\ UNCHANGED <<m_attributes, m_uniforms, registryVars, m_shaders, m_program>>
    /\ UNCHANGED <<textVars, pending, skipVars>>

\* line 406: parse_vars(m_pending_attributes, "attribute", ...)
LoadAttributes ==
    /\ pc = "done"
    /\ kw = W_uniform
    /\ EnterParseVars(W_attribute)
    /\ UNCHANGED <<textVars, objectVars, pending, skipVars>>

\* lines 407-425: the compile status read at line 403 decides whether the
\* shader is kept
LoadReturn ==
    /\ pc = "done"
    /\ kw = W_attribute
    /\ \E status \in BOOLEAN :
           m_shaders' = (IF status THEN m_shaders + 1 ELSE m_shaders)
    /\ LeaveParseVars
    /\ UNCHANGED <<m_attributes, m_uniforms, registryVars, m_program, calls>>
    /\ UNCHANGED <<textVars, pending, skipVars>>

\* lines 334-339
register_builtin_type(type, complex) ==
    /\ pc = "idle"
    /\ calls < MaxCalls
    /\ calls' = calls + 1
    /\ IF ~complex
       THEN /\ m_builtin_types' = push_back(m_builtin_types, type)
            /\ UNCHANGED m_complex_builtin_types
       ELSE /\ m_complex_builtin_types' = push_back(m_complex_builtin_types, type)
            /\ UNCHANGED m_builtin_types
    /\ UNCHANGED <<m_attributes, m_uniforms, m_shaders, m_program>>
    /\ UNCHANGED <<textVars, pending, localVars, skipVars>>

\* the type names a client registers
ExtraTypes == {<<"F", "o", "o">>}

RegisterBuiltinType ==
    \E type \in ExtraTypes, complex \in BOOLEAN :
        register_builtin_type(type, complex)

\* lines 341-355
import_std_builtin_types ==
    /\ pc = "idle"
    /\ calls < MaxCalls
    /\ calls' = calls + 1
    /\ m_builtin_types' = std_builtin_types
    /\ m_complex_builtin_types' = std_complex_builtin_types
    /\ UNCHANGED <<m_attributes, m_uniforms, m_shaders, m_program>>
    /\ UNCHANGED <<textVars, pending, localVars, skipVars>>

\* lines 357-369
unload ==
    /\ pc = "idle"
    /\ calls < MaxCalls
    /\ calls' = calls + 1
    /\ m_program' = 0
    /\ m_pending_attributes' = <<>>
    /\ m_pending_uniforms' = <<>>
    /\ m_shaders' = 0
    /\ m_attributes' = {}
    /\ m_uniforms' = {}
    /\ UNCHANGED <<textVars, registryVars, localVars, skipVars>>

\* lines 389-391: a key that is in the map keeps its entry
add_attribute(attr) ==
    /\ pc = "idle"
    /\ calls < MaxCalls
    /\ calls' = calls + 1
    /\ m_attributes' = m_attributes \cup {attr}
    /\ UNCHANGED <<m_uniforms, registryVars, m_shaders, m_program>>
    /\ UNCHANGED <<textVars, pending, localVars, skipVars>>

\* lines 393-395
add_uniform(uni) ==
    /\ pc = "idle"
    /\ calls < MaxCalls
    /\ calls' = calls + 1
    /\ m_uniforms' = m_uniforms \cup {uni}
    /\ UNCHANGED <<m_attributes, registryVars, m_shaders, m_program>>
    /\ UNCHANGED <<textVars, pending, localVars, skipVars>>

\* the names a client adds itself
ClientNames == {<<"z", "z">>}

AddAttribute == \E attr \in ClientNames : add_attribute(attr)

AddUniform == \E uni \in ClientNames : add_uniform(uni)

\* lines 490-494: the keys in the map after add_attribute / add_uniform has
\* been called for every name of v on the cleared map
Keys(v) == {v[i] : i \in 1..Len(v)}

\* lines 432-504: without a compiled shader finalize returns at line 442;
\* otherwise the program handle is what glCreateProgram gives (0 or a
\* name, 1), the maps get the pending names and the pending vectors and
\* the shaders are cleared
finalize ==
    /\ pc = "idle"
    /\ calls < MaxCalls
    /\ calls' = calls + 1
    /\ IF m_shaders = 0
       THEN UNCHANGED <<m_attributes, m_uniforms, m_shaders, m_program, pending>>
       ELSE /\ \E handle \in {0, 1} : m_program' = handle
            /\ m_attributes' = Keys(m_pending_attributes)
            /\ m_uniforms' = Keys(m_pending_uniforms)
            /\ m_pending_attributes' = <<>>
            /\ m_pending_uniforms' = <<>>
            /\ m_shaders' = 0
    /\ UNCHANGED <<textVars, registryVars, localVars, skipVars>>

Next ==
    \/ Load \/ LoadAttributes \/ LoadReturn
    \/ RegisterBuiltinType \/ import_std_builtin_types \/ unload \/ finalize
    \/ AddAttribute \/ AddUniform
    \/ PS_Find \/ PS_BodyTop \/ PS_Field \/ PS_Commit
    \/ PV_Find \/ PV_VarTop \/ PV_Var \/ PV_Resume

(***************************************************************************)
(* Sources.  A source is described by inp: an optional leading line, the   *)
(* struct definitions and the qualifier declarations, each with its        *)
(* spelling; Render(inp) is the text.                                      *)
(***************************************************************************)
Digits == <<"0", "1", "2", "3", "4", "5", "6", "7", "8", "9">>
Digit(i) == Digits[i + 1]
FieldName(i) == <<"f", Digit(i)>>
VarName(i) == <<"v", Digit(i)>>
StructName(k) == <<"S", Digit(k)>>
\* a struct name that has the registry fragment "mat" in it
MatName == <<"m", "a", "t", "1">>
\* a type that is neither builtin nor defined
UnknownType == <<"F", "o", "o">>
W_vec3 == <<"v", "e", "c", "3">>

RECURSIVE Concat(_, _)
\* the concatenation of the strings ss[i..]
Concat(ss, i) == IF i > Len(ss) THEN <<>> ELSE ss[i] \o Concat(ss, i + 1)

RenderVar(v, first) ==
    (IF first THEN <<>> ELSE <<",", " ">>) \o v.name
        \o (IF v.arr THEN <<"[", "2", "]">> ELSE <<>>)

RenderField(f) ==
    f.type \o <<" ">> \o f.name \o (IF f.arr THEN <<"[", "2", "]">> ELSE <<>>)
        \o <<";", " ">>

RenderStruct(s) ==
    W_struct \o <<" ">> \o s.name \o <<" ">> \o s.open
        \o Concat([i \in 1..Len(s.fields) |-> RenderField(s.fields[i])], 1)
        \o <<"}", ";", "\n">>

RenderDecl(d) ==
    d.qual \o <<" ">> \o d.type \o d.sep
        \o Concat([i \in 1..Len(d.vars) |-> RenderVar(d.vars[i], i = 1)], 1)
        \o d.term \o <<"\n">>

\* the leading line: none, "struct" inside an identifier, or inside a comment
Prefix(pre) ==
    CASE pre = 0 -> <<>>
      [] pre = 1 -> <<"i", "n", "t", " ", "x", "s", "t", "r", "u", "c", "t", ";", "\n">>
      [] pre = 2 -> <<"/", "/", " ", "s", "t", "r", "u", "c", "t", "\n">>

RenderParts(pre, ss, ds) ==
    Prefix(pre)
        \o Concat([i \in 1..Len(ss) |-> RenderStruct(ss[i])], 1)
        \o Concat([i \in 1..Len(ds) |-> RenderDecl(ds[i])], 1)

Render(d) == RenderParts(d.pre, d.structs, d.decls)

\* the declared length: the whole text, or (short) the text before the
\* last declaration
DeclaredLen(d) ==
    IF d.short
    THEN Len(RenderParts(d.pre, d.structs, SubSeq(d.decls, 1, Len(d.decls) - 1)))
    ELSE Len(Render(d))

Semi == <<";">>
Space == <<" ">>
OpenBrace == <<"{", " ">>

\* comma lists of 1..n variables, each with or without an array group
VarLists(n) ==
    UNION {{[i \in 1..k |-> [name |-> VarName(i), arr |-> a[i]]] :
               a \in [1..k -> BOOLEAN]} : k \in 1..n}

\* comma lists of exactly k variables without array groups
PlainVars(k) == [i \in 1..k |-> [name |-> VarName(i), arr |-> FALSE]]

\* the same with names that have the keyword in them: uniformv1, ...
KeywordVars(k) == [i \in 1..k |-> [name |-> W_uniform \o VarName(i), arr |-> FALSE]]

\* the name of the k-th struct of a source whose first struct is named n1
NameOf(k, n1) == IF k = 1 THEN n1 ELSE StructName(k)

\* a field of the k-th struct: a float, a float array (first struct), or a
\* field of the struct defined just before
FieldChoices(k, n1) ==
    IF k = 1
    THEN {[type |-> W_float, arr |-> FALSE], [type |-> W_float, arr |-> TRUE]}
    ELSE {[type |-> W_float, arr |-> FALSE], [type |-> NameOf(k - 1, n1), arr |-> FALSE]}

FieldLists(k, n1) ==
    UNION {{[i \in 1..j |-> [type |-> c[i].type, name |-> FieldName(i), arr |-> c[i].arr]] :
               c \in [1..j -> FieldChoices(k, n1)]} : j \in 1..MaxFields}

RECURSIVE StructListsOf(_, _)
\* the sources' struct parts with exactly m definitions
StructListsOf(m, n1) ==
    IF m = 0 THEN {<<>>}
    ELSE {Append(ss, [name |-> NameOf(m, n1), open |-> OpenBrace, fields |-> f]) :
             ss \in StructListsOf(m - 1, n1), f \in FieldLists(m, n1)}

FirstNames == {StructName(1), MatName}

StructLists(lo, hi) ==
    UNION {StructListsOf(m, n1) : m \in lo..hi, n1 \in FirstNames}

Decl(type, vs) ==
    [qual |-> W_uniform, type |-> type, sep |-> Space, vars |-> vs, term |-> Semi]

\* the same with the qualifier attribute
AttributeDecl(type, vs) ==
    [qual |-> W_attribute, type |-> type, sep |-> Space, vars |-> vs, term |-> Semi]

\* one declaration of builtin type, no struct
BuiltinInputs ==
    {[pre |-> 0, structs |-> <<>>, decls |-> <<d>>, short |-> FALSE] :
        d \in UNION {{Decl(t, vs), AttributeDecl(t, vs)} :
                         t \in {W_float, W_vec3}, vs \in VarLists(MaxVars)}}

\* 1..m struct definitions, then one declaration of the last struct defined
StructInputs(m) ==
    {[pre |-> 0, structs |-> ss,
      decls |-> <<Decl(ss[Len(ss)].name, PlainVars(n))>>, short |-> FALSE] :
        ss \in StructLists(1, m), n \in 1..MaxVars}

\* the same behind a line that has the text "struct" in it
PrefixedInputs ==
    {[pre |-> p, structs |-> ss,
      decls |-> <<Decl(ss[Len(ss)].name, PlainVars(1))>>, short |-> FALSE] :
        p \in {1, 2}, ss \in StructLists(1, 1)}

\* the sources with at most m struct definitions
Inputs(m) == BuiltinInputs \cup StructInputs(m) \cup PrefixedInputs

\* lines 322-324: a constructed object, and the text (one of I) that its
\* load calls will be given
ParseInit(I) ==
    /\ inp \in I
    /\ src = Render(inp)
    /\ len = DeclaredLen(inp)
    /\ Constructed
    /\ NoCall
    /\ SkipIdle

Init == ParseInit(Inputs(MaxStructs))

Spec == Init /\ [][Next]_vars

(***************************************************************************)
(* Sources made of one struct definition and a few declarations, some of   *)
(* them malformed: the last declaration ends with a brace instead of ';',  *)
(* has a comment or a lone '/' after its type, or lies beyond the declared *)
(* length; or the struct body opens with a second '{'; or the variables'   *)
(* names have the keyword in them.                                         *)
(***************************************************************************)
DeclTypes == {W_float, StructName(1), UnknownType}

OneStruct(open) ==
    <<[name |-> StructName(1), open |-> open,
       fields |-> <<[type |-> W_float, name |-> FieldName(1), arr |-> FALSE]>>]>>

RECURSIVE DeclPrefixes(_)
\* n well-formed declarations of one variable each
DeclPrefixes(n) ==
    IF n = 0 THEN {<<>>}
    ELSE {Append(ds, Decl(t, PlainVars(1))) : ds \in DeclPrefixes(n - 1), t \in DeclTypes}

\* 1..MaxDecls declarations; sep and term spell the last one
DeclLists(sep, term) ==
    {Append(ds, [qual |-> W_uniform, type |-> t, sep |-> sep, vars |-> PlainVars(k),
                 term |-> term]) :
        ds \in UNION {DeclPrefixes(n) : n \in 0..(MaxDecls - 1)},
        t \in DeclTypes, k \in 1..MaxVars}

DeclInput(open, ds, short) ==
    [pre |-> 0, structs |-> OneStruct(open), decls |-> ds, short |-> short]

DeclInputs ==
    \* well-formed
    {DeclInput(OpenBrace, ds, FALSE) : ds \in DeclLists(Space, Semi)}
    \* "uniform float v1\n}" and "uniform float v1 {"
    \cup {DeclInput(OpenBrace, ds, FALSE) : ds \in DeclLists(Space, <<"\n", "}">>)}
    \cup {DeclInput(OpenBrace, ds, FALSE) : ds \in DeclLists(Space, <<" ", "{">>)}
    \* "uniform float /*c*/ v1;" and "uniform float / v1;"
    \cup {DeclInput(OpenBrace, ds, FALSE) : ds \in DeclLists(<<" ", "/", "*", "c", "*", "/", " ">>, Semi)}
    \cup {DeclInput(OpenBrace, ds, FALSE) : ds \in DeclLists(<<" ", "/", " ">>, Semi)}
    \* the declared length ends before the last declaration
    \cup {DeclInput(OpenBrace, ds, TRUE) : ds \in DeclLists(Space, Semi)}
    \* "struct S1 { { float f1; };"
    \cup {DeclInput(<<"{", " ", "{", " ">>, ds, FALSE) : ds \in DeclLists(Space, Semi)}
    \* "uniform Foo uniformv1;": the keyword inside an identifier
    \cup {DeclInput(OpenBrace, <<[qual |-> W_uniform, type |-> t, sep |-> Space,
                                   vars |-> KeywordVars(k), term |-> Semi],
                                 Decl(W_float, PlainVars(1))>>, FALSE) :
              t \in DeclTypes, k \in 1..MaxVars}

DeclInit == ParseInit(DeclInputs)

DeclSpec == DeclInit /\ [][Next]_vars

(***************************************************************************)
(* What the spec says the extractor yields, computed from the description  *)
(* of the source.                                                          *)
(***************************************************************************)
\* the index of the struct named n among ss[1..k-1], or 0
DefinedBefore(ss, k, n) ==
    IF \E j \in 1..(k - 1) : ss[j].name = n
    THEN CHOOSE j \in 1..(k - 1) : ss[j].name = n
    ELSE 0

Prefixed(name, paths) == [i \in 1..Len(paths) |-> name \o <<".">> \o paths[i]]

RECURSIVE LeafPaths(_, _)
\* the leaf paths of struct ss[k]: depth-first, in field-declaration order
LeafPaths(ss, k) ==
    Concat([i \in 1..Len(ss[k].fields) |->
              LET f == ss[k].fields[i]
                  j == DefinedBefore(ss, k, f.type)
              IN  IF j = 0 THEN <<f.name>>
                  ELSE Prefixed(f.name, LeafPaths(ss, j))], 1)

\* variableName.fieldPath for each variable, for each path
DeclPaths(vs, paths) ==
    Concat([i \in 1..Len(vs) |-> Prefixed(vs[i].name, paths)], 1)

VarNames(vs) == [i \in 1..Len(vs) |-> vs[i].name]
FieldNames(fs) == [i \in 1..Len(fs) |-> fs[i].name]

NoArrays(xs) == \A i \in 1..Len(xs) : ~xs[i].arr

\* parse_structures has returned
StructsParsed == pc \in {"pv_for", "pv_loop", "pv_var", "pv_resume", "done"}

\* no step has been left out because a vector would pass MaxRes entries
NotTruncated ==
    /\ pc = "pv_var" => Len(pv_emit(res, tok, struct_fld)) <= MaxRes
    /\ pc = "ps_field"
          => Len(ps_field(src, offs, tok, structs, field_fields, len).fields) <= MaxRes

(***************************************************************************)
(* The claims.                                                             *)
(***************************************************************************)
\* C1: for a source that is one declaration <keyword> <builtin type>
\* v1, ..., vn; where any vi may be followed by one [...] group, parse_vars
\* called with that keyword appends exactly v1..vn in order to the result
\* sequence, and no other (empty) entry.
C1_BuiltinDeclYieldsNames ==
    (pc = "done" /\ inp.pre = 0 /\ inp.structs = <<>> /\ Len(inp.decls) = 1
        /\ inp.decls[1].qual = kw
        /\ is_builtin_type(inp.decls[1].type, m_builtin_types, m_complex_builtin_types))
    => res = res0 \o VarNames(inp.decls[1].vars)

\* C2: structs defined before use, fields written `type name;` with a
\* builtin or previously defined struct type, one declaration
\* <keyword> T v1, ..., vn; of a defined struct T: parse_vars appends, for
\* v1 then v2 ..., vi.p for every leaf path p of T, depth-first in
\* field-declaration order.
C2_StructDeclFlattened ==
    (/\ pc = "done"
     /\ inp.pre = 0
     /\ Len(inp.decls) = 1
     /\ inp.decls[1].qual = kw
     /\ (\A k \in 1..Len(inp.structs) : NoArrays(inp.structs[k].fields))
     /\ NoArrays(inp.decls[1].vars)
     /\ DefinedBefore(inp.structs, Len(inp.structs) + 1, inp.decls[1].type) # 0)
    => res = res0 \o DeclPaths(inp.decls[1].vars,
                 LeafPaths(inp.structs,
                     DefinedBefore(inp.structs, Len(inp.structs) + 1, inp.decls[1].type)))

\* C5: no step of parse_structures and parse_vars reads a buffer offset
\* >= len, the keyword searches included, also when len is shorter than
\* the NUL-terminated text.
C5_NoReadAtOrPastLen == maxRead < len

\* C6: an occurrence of "struct" that is not followed by a name and '{'
\* is dropped alone: every well-formed struct definition later in the
\* source is still added to the struct table.
C6_LaterStructsKept ==
    (StructsParsed /\ ~inp.short
        /\ \A k \in 1..Len(inp.structs) : inp.structs[k].open = OpenBrace)
    => \A k \in 1..Len(inp.structs) :
           get_struct_field(inp.structs[k].name, structs).ok

NoSlash(code) == \A i \in 1..Len(code) : code[i] # "/"

\* C7: parse_vars, with the parse_structures call it makes, terminates on
\* every NUL-terminated buffer without a '/', however malformed: no
\* iteration of the struct-body loop or of the variable-name loop reads an
\* empty token and goes round again with the cursor where it was (such an
\* iteration depends on the cursor alone, so it would repeat for ever).
C7_LoopsAdvance ==
    [][(NoSlash(src) /\ len = Len(src))
       => /\ (pc = "ps_field" /\ pc' = "ps_body") => (tok # <<>> \/ offs' > offs)
          /\ (pc = "pv_var" /\ pc' = "pv_loop") => (tok # <<>> \/ o' > o)
      ]_vars

\* C8: for a terminated struct body whose fields are all builtin-typed,
\* written `type name;` or `type name[...];`, the stored field list is
\* exactly the fields' names in declaration order; an array group adds no
\* extra (empty) path.
C8_BuiltinFieldsStoredOnce ==
    (StructsParsed /\ inp.pre = 0 /\ ~inp.short)
    => \A k \in 1..Len(inp.structs) :
           (/\ inp.structs[k].open = OpenBrace
            /\ \A i \in 1..Len(inp.structs[k].fields) :
                   is_builtin_type(inp.structs[k].fields[i].type,
                                   m_builtin_types, m_complex_builtin_types))
           => get_struct_field(inp.structs[k].name, structs)
                  = [ok |-> TRUE, fields |-> FieldNames(inp.structs[k].fields)]

\* C9: a declaration whose type token is a key of the struct table,
\* whatever its spelling, yields variableName.fieldPath for each variable
\* and each path stored for that struct, and never the bare variable name.
C9_StructKeyDeclFlattened ==
    (pc = "done" /\ Len(inp.decls) = 1 /\ ~inp.short
        /\ inp.decls[1].qual = kw
        /\ NoArrays(inp.decls[1].vars)
        /\ get_struct_field(inp.decls[1].type, structs).ok)
    => res = res0 \o DeclPaths(inp.decls[1].vars,
                 get_struct_field(inp.decls[1].type, structs).fields)

\* the token after the keyword occurrence at p is neither a builtin type
\* nor a key of the struct table
TypeUnknownAt(p) ==
    LET o1 == skip_ws(src, p + Len(kw), len)
    IN  /\ o1 # Hang
        /\ o1 < len
        /\ ~is_builtin_type(next_tok(src, o1, len).tok,
                            m_builtin_types, m_complex_builtin_types)
        /\ ~get_struct_field(next_tok(src, o1, len).tok, structs).ok

\* C10: when the token after a keyword occurrence is neither builtin nor a
\* struct key, parse_vars appends nothing and resumes the search right
\* after that occurrence; over every outer iteration the search position
\* strictly increases, and so does the position of the occurrence
\* processed: none is processed twice.
C10_SearchAdvances ==
    [][/\ (/\ pc = "pv_for" /\ offs < len
           /\ strstr(src, pcode, kw) # Null
           /\ TypeUnknownAt(strstr(src, pcode, kw)))
          => (/\ res' = res
              /\ pc' = "pv_for"
              /\ pcode' = strstr(src, pcode, kw) + Len(kw))
       /\ (pc = "pv_for" /\ pc' \in {"pv_for", "pv_loop"})
          => (/\ pcode' > pcode
              /\ offs' >= pcode
              /\ (pcode > 0 => offs' > offs))
       /\ (pc = "pv_resume") => pcode' >= pcode
      ]_vars

\* a declaration of unknown type has been passed over, nothing appended,
\* and a later keyword occurrence is still to be processed
C10_Witness ==
    /\ pc = "pv_for"
    /\ pcode = offs + Len(kw)
    /\ pcode > 0
    /\ TypeUnknownAt(offs)
    /\ res = res0
    /\ strstr(src, pcode, kw) # Null

====
